---- MODULE Spec2Model ----
(***************************************************************************)
(* The POST /process handler of the video worker, in its three variants:   *)
(*   "index"  src/index.js          safe-mode transcode, presigned PUT     *)
(*   "remux"  src/unnamed/part_000  remux first, transcode as fallback     *)
(*   "supa"   src/unnamed/part_001  auth, safe-mode transcode, storage API *)
(*                                                                         *)
(* A JS string is a sequence of tokens (<<"https://x/put", "?", "sig">>),  *)
(* so that split, replace, encodeURIComponent and template strings are     *)
(* computed on its content.  Every handler runs on one event loop: the     *)
(* code between two awaits is one uninterrupted run, which `turn` records. *)
(* Timestamps of log lines and the text of subprocess output are left out. *)
(*                                                                         *)
(* Spec runs one request over every body and every outcome of every        *)
(* external operation; SpecConc runs two valid requests in flight together *)
(* on one filesystem; FairSpec is Spec with the steps that can be taken    *)
(* eventually taken.                                                       *)
(***************************************************************************)
EXTENDS Integers, Sequences, FiniteSets, TLC

\* ---------------------------------------------------------------- bounds
NumJobs == 2

\* ------------------------------------------------------------- JS values
\* The value of a field the request body does not have.
Undef == <<"\\undefined">>

\* !x is false: x is neither undefined nor the empty string.
Truthy(x) == x /= Undef /\ x /= <<>>

\* `${x}`
ToStr(x) == IF x = Undef THEN <<"undefined">> ELSE x

\* The tokens an absolute URL can start with.
Origins == {"https://src/v.mov", "https://x/put", "https://sb.co"}

\* node-fetch accepts absolute URLs only; anything else makes fetch() throw.
IsAbsoluteUrl(u) == Len(ToStr(u)) > 0 /\ Head(ToStr(u)) \in Origins

\* A plausible slip: the upper end of the ok range is forgotten.
StatusOkLoose(s) == s >= 200

\* response.ok
StatusOk(s) == s >= 200 /\ s < 300

\* The index of the first "?" of u, or Len(u) + 1.
RECURSIVE FirstQ(_, _)
FirstQ(u, i) == IF i > Len(u) THEN i ELSE IF u[i] = "?" THEN i ELSE FirstQ(u, i + 1)

\* A plausible slip: the URL is returned as it was given.
StripQueryKeep(u) == u

\* upload_url.split("?")[0]
StripQuery(u) == SubSeq(u, 1, FirstQ(u, 1) - 1)

\* supabase_url.replace(/\/+$/, "")
RECURSIVE StripTrailingSlashes(_)
StripTrailingSlashes(u) ==
    IF Len(u) > 0 /\ u[Len(u)] = "/" THEN StripTrailingSlashes(SubSeq(u, 1, Len(u) - 1)) ELSE u

\* encodeURIComponent, one token at a time.
EncodeToken(t) == IF t = " " THEN "%20" ELSE IF t = "/" THEN "%2F" ELSE t

EncodeURIComponent(s) == [i \in 1..Len(s) |-> EncodeToken(s[i])]

\* object_path.split("/").map(encodeURIComponent).join("/")
SafePath(p) == [i \in 1..Len(p) |-> IF p[i] = "/" THEN "/" ELSE EncodeToken(p[i])]

\* `processed/${match_id}/stream.mp4`
ObjectPath(match_id) == <<"processed", "/">> \o ToStr(match_id) \o <<"/", "stream.mp4">>

\* The storage API endpoint the file is POSTed to.
StorageUrl(supabase_url, bucket, object_path) ==
    StripTrailingSlashes(supabase_url) \o <<"/storage/v1/object/">>
        \o EncodeURIComponent(bucket) \o <<"/">> \o SafePath(object_path)

\* The public URL returned as stream_url.
PublicUrl(supabase_url, bucket, object_path) ==
    StripTrailingSlashes(supabase_url) \o <<"/storage/v1/object/public/">>
        \o EncodeURIComponent(bucket) \o <<"/">> \o SafePath(object_path)

\* --------------------------------------------------------------- variants
Variants == {"index", "remux", "supa"}

Jobs == 1..NumJobs

\* WORKER_SECRET: unset, or set.
Secrets == {<<>>, <<"s3cret">>}

\* The Authorization headers a request may carry.
AuthHeaders == {Undef, <<"Bearer ", "s3cret">>, <<"Bearer ", "wrong">>, <<"s3cret">>,
                <<"Bearer ", "s3cret", "x">>}

InputUrls == {Undef, <<>>, <<"https://src/v.mov">>, <<"v.mov">>}

MatchIds == {Undef, <<>>, <<"m1">>, <<"m", " ", "2">>}

UploadUrls == {Undef, <<>>, <<"https://x/put">>, <<"https://x/put", "?", "sig=abc">>,
               <<"https://x/put", "?", "a", "?", "b">>, <<"?", "sig=abc">>}

Buckets == {Undef, <<"vids">>, <<"my", " ", "vids">>}

SupabaseUrls == {Undef, <<"https://sb.co">>, <<"https://sb.co", "/", "/">>}

SupabaseKeys == {Undef, <<"key">>}

\* The request bodies (and Authorization header) a handler variant reads.
Requests(v) ==
    IF v = "supa"
    THEN [authorization : AuthHeaders, input_video_url : InputUrls, match_id : MatchIds,
          upload_url : {Undef}, storage_bucket : Buckets, supabase_url : SupabaseUrls,
          supabase_key : SupabaseKeys]
    ELSE [authorization : {Undef}, input_video_url : InputUrls, match_id : MatchIds,
          upload_url : UploadUrls, storage_bucket : {Undef}, supabase_url : {Undef},
          supabase_key : {Undef}]

NoRequest ==
    [authorization |-> Undef, input_video_url |-> Undef, match_id |-> Undef,
     upload_url |-> Undef, storage_bucket |-> Undef, supabase_url |-> Undef,
     supabase_key |-> Undef]

\* The statuses the download source and the upload target answer with.
DownloadStatuses == {200, 404}

UploadStatuses == {200, 403, 500}

\* The valid requests concurrent callers send: two correlation keys.
ConcRequests(v) ==
    {r \in Requests(v) :
        /\ r.match_id \in {<<"m1">>, <<"m", " ", "2">>}
        /\ r.input_video_url = <<"https://src/v.mov">>
        /\ v = "supa" => /\ r.authorization = <<"Bearer ", "s3cret">>
                         /\ r.storage_bucket = <<"vids">>
                         /\ r.supabase_url = <<"https://sb.co">>
                         /\ r.supabase_key = <<"key">>
        /\ v /= "supa" => r.upload_url = <<"https://x/put", "?", "sig=abc">>}

\* The requests that may arrive.
Arrivals(e, v) == IF e = "full" THEN Requests(v) ELSE ConcRequests(v)

\* The statuses a server answers with.
Answers(e, statuses) == IF e = "full" THEN statuses ELSE {s \in statuses : s < 500}

\* await fetch() rejecting for a network failure: outcome 0.
Rejections(e) == IF e = "full" THEN {0} ELSE {}

\* How the download stream can end.
StreamEvents(e) ==
    IF e = "full" THEN {"finish", "readError", "writeError"} ELSE {"finish", "readError"}

\* How a subprocess can end: its exit, whether it printed to stdout and to
\* stderr, and whether it wrote (some of) the output file.
ExecOutcomes(e) ==
    IF e = "full"
    THEN [ok : BOOLEAN, out : BOOLEAN, errout : BOOLEAN, written : BOOLEAN]
    ELSE {[ok |-> b, out |-> FALSE, errout |-> TRUE, written |-> b] : b \in BOOLEAN}

\* ------------------------------------------------------ errors and lines
\* An error message; code is the status the text quotes, 0 when it quotes none.
Msg(text, code) == [text |-> text, code |-> code]

\* A thrown error; statusCode is 0 when the error object has no such property.
Err(text, code, statusCode) == [message |-> Msg(text, code), statusCode |-> statusCode]

NoErr == Err("", 0, 0)

\* A log line; job is the job id the line is tagged with, 0 when it has no tag.
Line(id, text, code) == [job |-> id, text |-> text, code |-> code]

NoResp == [code |-> 0, body |-> [status |-> "none"]]

\* A step of the job, recorded for the history of the job.
Ev(op, ok, code) == [op |-> op, ok |-> ok, code |-> code]

VARIABLES
    variant,      \* which handler the process runs
    secret,       \* WORKER_SECRET
    env,          \* what the outside world may do: "full" or "lean"
    turn,         \* the job running on the event loop, 0 between callbacks
    nextId,       \* the next crypto.randomUUID()
    pc,           \* where each job's handler stands
    req,          \* the request of each job
    jobId,        \* jobId, 0 in the handlers that have none
    logs,         \* the logs array of each job
    inputPath,    \* inputPath, <<>> while unassigned
    outputPath,   \* outputPath, <<>> while unassigned
    err,          \* the error thrown and not yet handled
    resp,         \* the response sent, NoResp before
    pending,      \* the fs.unlink calls issued and not completed yet
    fs,           \* the files under /tmp: [path, by] records
    outcome,      \* how the try block ended: "none", "success", "invalid", "error"
    todo,         \* the statements of the handler's tail still to run
    upStatus,     \* r.status of the upload response, held across await r.text()
    trace         \* the operations each job performed, in order

vars == <<variant, secret, env, turn, nextId, pc, req, jobId, logs, inputPath, outputPath,
          err, resp, pending, fs, outcome, todo, upStatus, trace>>

\* ------------------------------------------------------------ filesystem
Exists(p) == \E f \in fs : f.path = p

Written(p, j) == {f \in fs : f.path /= p} \cup {[path |-> p, by |-> j]}

Removed(p) == {f \in fs : f.path /= p}

\* The job that wrote the file at p, 0 when there is no file.
Owner(p) == IF Exists(p) THEN (CHOOSE f \in fs : f.path = p).by ELSE 0

\* The record of an access ("read", "overwrite") to the file at p, if any.
Touch(op, p) == IF Exists(p) THEN <<Ev(op, TRUE, Owner(p))>> ELSE <<>>

\* ------------------------------------------------------------------ Init
InitWith(active) ==
    /\ variant \in Variants
    /\ secret \in Secrets
    /\ variant /= "supa" => secret = <<>>
    /\ turn = 0
    /\ nextId = 1
    /\ pc = [j \in Jobs |-> IF j \in active THEN "idle" ELSE "off"]
    /\ req = [j \in Jobs |-> NoRequest]
    /\ jobId = [j \in Jobs |-> 0]
    /\ logs = [j \in Jobs |-> <<>>]
    /\ inputPath = [j \in Jobs |-> <<>>]
    /\ outputPath = [j \in Jobs |-> <<>>]
    /\ err = [j \in Jobs |-> NoErr]
    /\ resp = [j \in Jobs |-> NoResp]
    /\ pending = [j \in Jobs |-> {}]
    /\ fs = {}
    /\ outcome = [j \in Jobs |-> "none"]
    /\ todo = [j \in Jobs |-> <<>>]
    /\ upStatus = [j \in Jobs |-> 0]
    /\ trace = [j \in Jobs |-> <<>>]

\* One request, every body and every outcome of every external operation.
Init == InitWith({1}) /\ env = "full"

\* Two requests in flight together, valid bodies, the outcomes that decide
\* the control flow.
InitConc ==
    /\ InitWith({1, 2})
    /\ env = "lean"
    /\ variant = "supa" => secret = <<"s3cret">>

\* ------------------------------------------------- what each handler does
\* Where the handler begins: part_001 checks the Authorization header,
\* index.js validates the body, part_000 does neither.
EntryPc(v) == IF v = "supa" THEN "auth" ELSE IF v = "index" THEN "validate" ELSE "start"

\* A plausible slip: any Bearer header passes.
RequireAuthPrefixOnly(s, h) == s = <<>> \/ (Len(ToStr(h)) > 0 /\ Head(ToStr(h)) = "Bearer ")

\* requireAuth returns (TRUE) or throws (FALSE); `req.headers.authorization || ""`.
RequireAuth(s, h) ==
    \/ s = <<>>
    \/ (IF Truthy(h) THEN h ELSE <<>>) = <<"Bearer ">> \o s

\* The condition of the handler's 400 answer.
MissingRequired(v, r) ==
    IF v = "supa"
    THEN \/ ~Truthy(r.input_video_url) \/ ~Truthy(r.match_id) \/ ~Truthy(r.storage_bucket)
         \/ ~Truthy(r.supabase_url) \/ ~Truthy(r.supabase_key)
    ELSE ~Truthy(r.input_video_url) \/ ~Truthy(r.match_id) \/ ~Truthy(r.upload_url)

\* A plausible change: the path is namespaced by the request, not by the key.
InputPathOfPerJob(v, match_id) == <<"/tmp/input-">> \o ToStr(match_id) \o <<"-", ToString(turn)>>

InputPathOf(v, match_id) ==
    IF v = "remux" THEN <<"/tmp/input-">> \o ToStr(match_id) \o <<".mp4">>
    ELSE <<"/tmp/input-">> \o ToStr(match_id)

OutputPathOf(v, match_id) ==
    IF v = "supa" THEN <<"/tmp/stream-">> \o ToStr(match_id) \o <<".mp4">>
    ELSE <<"/tmp/output-">> \o ToStr(match_id) \o <<".mp4">>

\* The lines logged before the download request is issued.
StartLines(v, id) ==
    IF v = "supa"
    THEN <<Line(id, "JOB START", 0), Line(id, "Bucket=", 0), Line(id, "Downloading input", 0)>>
    ELSE <<Line(0, "JOB START", 0), Line(0, "Downloading video...", 0)>>

\* The error thrown for a download response that is not ok.
DownloadError(v, status) ==
    IF v = "index" THEN Err("Download failed: ", status, 0)
    ELSE IF v = "remux" THEN Err("Failed to download input video", 0, 0)
    ELSE Err("Download failed HTTP ", status, 0)

\* The error thrown for an upload response that is not ok.
UploadError(v, status) ==
    IF v = "index" THEN Err("Upload failed: ", status, 0)
    ELSE IF v = "remux" THEN Err("Upload failed", 0, 0)
    ELSE Err("Supabase upload failed HTTP ", status, 0)

\* A plausible slip: the promise resolves on any end of the stream.
StreamSettlesAlways(v, event) == "resolve"

\* What the promise around the download stream does on each stream event:
\* index.js listens for the body's error, part_001 for the file's as well,
\* part_000 for neither.
StreamSettles(v, event) ==
    IF event = "finish" THEN "resolve"
    ELSE IF v = "supa" THEN "reject"
    ELSE IF v = "index" /\ event = "readError" THEN "reject"
    ELSE "never"

\* The lines logged once the input file is on disk.
DownloadedLines(v, id) ==
    IF v = "supa"
    THEN <<Line(id, "Download complete", 0), Line(id, "Running ffmpeg TRANSCODE", 0)>>
    ELSE IF v = "index"
    THEN <<Line(0, "Download complete", 0), Line(0, "Running ffmpeg TRANSCODE", 0)>>
    ELSE <<Line(0, "Download complete", 0), Line(0, "Running ffmpeg remux...", 0)>>

\* The lines the exec callback logs for the subprocess's output.
RunLines(v, id, out, errout) ==
    IF v = "remux" THEN <<>>
    ELSE (IF out THEN <<Line(id, IF v = "supa" THEN "cmd stdout" ELSE "ffmpeg stdout", 0)>>
          ELSE <<>>)
         \o (IF errout THEN <<Line(id, IF v = "supa" THEN "cmd stderr" ELSE "ffmpeg stderr", 0)>>
             ELSE <<>>)

\* The lines logged after the subprocess exited 0, up to the upload request.
TranscodedLines(v, id, kind) ==
    IF v = "supa"
    THEN <<Line(id, "ffmpeg transcode successful", 0), Line(id, "Uploading to Supabase Storage", 0)>>
    ELSE IF kind = "remux"
    THEN <<Line(0, "Remux successful", 0), Line(0, "Uploading processed video...", 0)>>
    ELSE <<Line(0, "Transcode successful", 0), Line(0, "Uploading processed video...", 0)>>

\* A plausible slip: every handler retries a failed subprocess.
OnRemuxFailureAlways(v) == "fallback"

\* What the handler does when the first subprocess fails.
OnRemuxFailure(v) == IF v = "remux" THEN "fallback" ELSE "throw"

\* A plausible slip: the failed remux leaves no line in the log.
FallbackLinesNone == <<>>

\* The line logged when the remux failed.
FallbackLines == <<Line(0, "Remux failed, falling back to transcode", 0)>>

\* The URL the output file is sent to.
UploadTarget(v, r) ==
    IF v = "supa" THEN StorageUrl(ToStr(r.supabase_url), ToStr(r.storage_bucket), ObjectPath(r.match_id))
    ELSE r.upload_url

\* The lines logged after an ok upload.
UploadedLines(v, id) ==
    IF v = "supa"
    THEN <<Line(id, "Upload complete. public stream_url=", 0), Line(id, "JOB SUCCESS", 0)>>
    ELSE <<Line(0, "Upload complete", 0), Line(0, "JOB SUCCESS", 0)>>

\* stream_url of the success response.
StreamUrl(v, r) ==
    IF v = "supa" THEN PublicUrl(ToStr(r.supabase_url), ToStr(r.storage_bucket), ObjectPath(r.match_id))
    ELSE StripQuery(r.upload_url)

\* The line the catch block logs; part_000 writes to console.error only.
CatchLines(v, id, e) ==
    IF v = "remux" THEN <<>>
    ELSE <<Line(id, "ERROR: " \o (IF e.message.text = "" /\ v = "supa" THEN "Unknown error"
                                  ELSE e.message.text), e.message.code)>>

\* The HTTP status of the catch block's response.
ErrorStatus(v, e) == IF v = "supa" /\ e.statusCode /= 0 THEN e.statusCode ELSE 500

\* The body of the 400 response.
InvalidBody(v, lg) ==
    [status |-> "error", error |-> Msg("Missing required fields", 0), logs |-> lg]

\* A plausible slip: the error response carries the URL too.
ErrorBodyWithUrl(v, id, e, lg) ==
    [status |-> "error", error |-> e.message, stream_url |-> <<>>, logs |-> lg]

\* The body of the catch block's response.
ErrorBody(v, id, e, lg) ==
    IF v = "supa"
    THEN [status |-> "error", job_id |-> id, error |-> e.message, logs |-> lg]
    ELSE [status |-> "error", error |-> e.message, logs |-> lg]

\* The body of the success response; JSON.stringify drops an undefined match_id.
SuccessBody(v, id, r, lg) ==
    IF v = "supa"
    THEN [status |-> "success", job_id |-> id, match_id |-> r.match_id,
          stream_url |-> StreamUrl(v, r), logs |-> lg]
    ELSE IF r.match_id = Undef
    THEN [status |-> "success", stream_url |-> StreamUrl(v, r), logs |-> lg]
    ELSE [status |-> "success", match_id |-> r.match_id,
          stream_url |-> StreamUrl(v, r), logs |-> lg]

\* A plausible slip: the temp files are removed before the response is sent.
EpilogueCleanupFirst(v, how) ==
    IF v = "remux" THEN <<"respond">>
    ELSE IF how = "error" THEN <<"log", "cleanup", "respond">>
    ELSE <<"cleanup", "respond">>

\* A plausible slip: the catch block logs the error after it answered.
EpilogueRespondFirst(v, how) ==
    IF v = "remux" THEN <<"respond">>
    ELSE IF how = "error" THEN <<"respond", "log", "cleanup">>
    ELSE <<"respond", "cleanup">>

\* The statements that end the handler, in order, after the try block ended
\* with a success, with the 400 answer, or with a throw.
Epilogue(v, how) ==
    IF v = "remux" THEN <<"respond">>
    ELSE IF how = "error" THEN <<"log", "respond", "cleanup">>
    ELSE <<"respond", "cleanup">>

\* How the finally block removes a file: unlinkSync, fs.unlink, or not at all.
UnlinkMode(v) == IF v = "supa" THEN "sync" ELSE IF v = "index" THEN "async" ELSE "none"

\* ------------------------------------------------------------ the handler
\* A plausible slip: one logs array for the whole process.
LogTargetsShared(j) == Jobs

\* The logs arrays log() of job j pushes to: the one makeLogger made for it.
LogTargets(j) == {j}

Log(j, lines) == logs' = [k \in Jobs |-> IF k \in LogTargets(j) THEN logs[k] \o lines ELSE logs[k]]

Record(j, events) == trace' = [trace EXCEPT ![j] = @ \o events]

Goto(j, p) == pc' = [pc EXCEPT ![j] = p]

\* The try block ends: the handler's tail is what remains, in the same run.
Finish(j, how) ==
    /\ outcome' = [outcome EXCEPT ![j] = how]
    /\ todo' = [todo EXCEPT ![j] = Epilogue(variant, how)]
    /\ Goto(j, "epilogue")
    /\ turn' = j

\* throw e, caught by the handler's catch block.
Throw(j, e) ==
    /\ err' = [err EXCEPT ![j] = e]
    /\ Finish(j, "error")

\* What await fetch(url) can give: a response status, or 0 for a rejection.
FetchOutcomes(e, url, statuses) ==
    IF IsAbsoluteUrl(url) THEN Answers(e, statuses) \cup Rejections(e) ELSE {0}

\* A request arrives: const logs = [], jobId = crypto.randomUUID(), paths "".
Receive(j) ==
    /\ turn = 0
    /\ pc[j] = "idle"
    /\ \E r \in Arrivals(env, variant) : req' = [req EXCEPT ![j] = r]
    /\ IF variant = "supa"
       THEN jobId' = [jobId EXCEPT ![j] = nextId] /\ nextId' = nextId + 1
       ELSE UNCHANGED <<jobId, nextId>>
    /\ Goto(j, EntryPc(variant))
    /\ turn' = j
    /\ UNCHANGED <<variant, secret, env, logs, inputPath, outputPath, err, resp, pending, fs,
                   outcome, todo, upStatus, trace>>

\* requireAuth(req)
Auth(j) ==
    /\ turn = j
    /\ pc[j] = "auth"
    /\ Record(j, <<Ev("auth", RequireAuth(secret, req[j].authorization), 0)>>)
    /\ IF RequireAuth(secret, req[j].authorization)
       THEN Goto(j, "validate") /\ UNCHANGED <<turn, err, outcome, todo>>
       ELSE Throw(j, Err("Unauthorized", 0, 401))
    /\ UNCHANGED <<variant, secret, env, nextId, req, jobId, logs, inputPath, outputPath, resp,
                   pending, fs, upStatus>>

\* if (!input_video_url || ...) return res.status(400).json(...)
Validate(j) ==
    /\ turn = j
    /\ pc[j] = "validate"
    /\ Record(j, <<Ev("validate", ~MissingRequired(variant, req[j]), 0)>>)
    /\ IF MissingRequired(variant, req[j])
       THEN Finish(j, "invalid")
       ELSE Goto(j, "start") /\ UNCHANGED <<turn, outcome, todo>>
    /\ UNCHANGED <<variant, secret, env, nextId, req, jobId, logs, inputPath, outputPath, err,
                   resp, pending, fs, upStatus>>

\* JOB START, the temp paths, and the download request.
StartJob(j) ==
    /\ turn = j
    /\ pc[j] = "start"
    /\ Log(j, StartLines(variant, jobId[j]))
    /\ inputPath' = [inputPath EXCEPT ![j] = InputPathOf(variant, req[j].match_id)]
    /\ outputPath' = [outputPath EXCEPT ![j] = OutputPathOf(variant, req[j].match_id)]
    /\ Record(j, <<Ev("download_start", TRUE, 0)>>)
    /\ Goto(j, "fetch")
    /\ turn' = 0
    /\ UNCHANGED <<variant, secret, env, nextId, req, jobId, err, resp, pending, fs, outcome,
                   todo, upStatus>>

\* await fetch(input_video_url) settles; an ok response is piped to the file.
FetchDone(j) ==
    /\ turn = 0
    /\ pc[j] = "fetch"
    /\ \E o \in FetchOutcomes(env, req[j].input_video_url, DownloadStatuses) :
         /\ Record(j, <<Ev("download_response", StatusOk(o), o)>>)
         /\ IF o = 0 THEN Throw(j, Err("fetch failed", 0, 0))
            ELSE IF ~StatusOk(o) THEN Throw(j, DownloadError(variant, o))
            ELSE Goto(j, "stream") /\ UNCHANGED <<turn, err, outcome, todo>>
    /\ UNCHANGED <<variant, secret, env, nextId, req, jobId, logs, inputPath, outputPath, resp,
                   pending, fs, upStatus>>

\* The download stream ends: the file finished, or the body or the file failed.
\* An error no listener rejects on leaves the promise pending for ever ("hung":
\* the unhandled 'error' event may end the process, the job is not answered
\* either way).
StreamDone(j) ==
    /\ turn = 0
    /\ pc[j] = "stream"
    /\ \E event \in StreamEvents(env), created \in BOOLEAN :
         /\ event /= "writeError" => created
         /\ fs' = IF created THEN Written(inputPath[j], j) ELSE fs
         /\ IF StreamSettles(variant, event) = "resolve"
            THEN /\ IF variant = "remux"
                    THEN /\ Log(j, DownloadedLines(variant, jobId[j]))
                         /\ Record(j, (IF created THEN Touch("overwrite", inputPath[j]) ELSE <<>>)
                                       \o <<Ev("download_stream", event = "finish", 0),
                                            Ev("remux_start", TRUE, 0)>>)
                         /\ Goto(j, "ffmpeg")
                    ELSE /\ Record(j, (IF created THEN Touch("overwrite", inputPath[j]) ELSE <<>>)
                                       \o <<Ev("download_stream", event = "finish", 0)>>)
                         /\ Goto(j, "stat")
                         /\ UNCHANGED logs
                 /\ UNCHANGED <<turn, err, outcome, todo>>
            ELSE IF StreamSettles(variant, event) = "reject"
            THEN /\ Record(j, (IF created THEN Touch("overwrite", inputPath[j]) ELSE <<>>)
                               \o <<Ev("download_stream", FALSE, 0)>>)
                 /\ Throw(j, Err("stream error", 0, 0))
                 /\ UNCHANGED logs
            ELSE /\ Record(j, (IF created THEN Touch("overwrite", inputPath[j]) ELSE <<>>)
                               \o <<Ev("download_stream", FALSE, 0)>>)
                 /\ Goto(j, "hung")
                 /\ UNCHANGED <<turn, err, outcome, todo, logs>>
    /\ UNCHANGED <<variant, secret, env, nextId, req, jobId, inputPath, outputPath, resp,
                   pending, upStatus>>

\* await fsp.stat(inputPath) settles; then the transcoder is started.
StatDone(j) ==
    /\ turn = 0
    /\ pc[j] = "stat"
    /\ IF Exists(inputPath[j])
       THEN /\ Log(j, DownloadedLines(variant, jobId[j]))
            /\ Record(j, Touch("read", inputPath[j])
                           \o <<Ev("stat", TRUE, 0), Ev("transcode_start", TRUE, 0)>>)
            /\ Goto(j, "ffmpeg")
            /\ UNCHANGED <<turn, err, outcome, todo>>
       ELSE /\ Record(j, <<Ev("stat", FALSE, 0)>>)
            /\ Throw(j, Err("ENOENT", 0, 0))
            /\ UNCHANGED logs
    /\ UNCHANGED <<variant, secret, env, nextId, req, jobId, inputPath, outputPath, resp,
                   pending, fs, upStatus>>

\* The exec callback of the first subprocess: the transcode, or the remux.
ExecDone(j) ==
    /\ turn = 0
    /\ pc[j] = "ffmpeg"
    /\ \E x \in ExecOutcomes(env) :
         LET kind == IF variant = "remux" THEN "remux" ELSE "transcode"
             end == IF variant = "remux" THEN "remux_end" ELSE "transcode_end"
             ok == x.ok
             out == x.out
             errout == x.errout
             written == x.written
             touches == Touch("read", inputPath[j])
                        \o (IF written THEN Touch("overwrite", outputPath[j]) ELSE <<>>)
         IN
         /\ ok => Exists(inputPath[j]) /\ written
         /\ written => Exists(inputPath[j])
         /\ fs' = IF written THEN Written(outputPath[j], j) ELSE fs
         /\ IF ok
            THEN /\ Log(j, RunLines(variant, jobId[j], out, errout)
                           \o TranscodedLines(variant, jobId[j], kind))
                 /\ Record(j, touches \o <<Ev(end, TRUE, 0), Ev("upload_start", TRUE, 0)>>)
                 /\ Goto(j, "upload")
                 /\ UNCHANGED <<turn, err, outcome, todo>>
            ELSE IF OnRemuxFailure(variant) = "fallback"
            THEN /\ Log(j, RunLines(variant, jobId[j], out, errout) \o FallbackLines)
                 /\ Record(j, touches \o <<Ev(end, FALSE, 0), Ev("transcode_start", TRUE, 0)>>)
                 /\ Goto(j, "fallback")
                 /\ UNCHANGED <<turn, err, outcome, todo>>
            ELSE /\ Log(j, RunLines(variant, jobId[j], out, errout))
                 /\ Record(j, touches \o <<Ev(end, FALSE, 0)>>)
                 /\ Throw(j, Err("Command failed", 0, 0))
    /\ UNCHANGED <<variant, secret, env, nextId, req, jobId, inputPath, outputPath, resp,
                   pending, upStatus>>

\* The exec callback of the full transcode run after a failed remux.
FallbackDone(j) ==
    /\ turn = 0
    /\ pc[j] = "fallback"
    /\ \E x \in ExecOutcomes(env) :
         LET ok == x.ok
             written == x.written
             touches == Touch("read", inputPath[j])
                        \o (IF written THEN Touch("overwrite", outputPath[j]) ELSE <<>>)
         IN
         /\ ok => Exists(inputPath[j]) /\ written
         /\ written => Exists(inputPath[j])
         /\ fs' = IF written THEN Written(outputPath[j], j) ELSE fs
         /\ IF ok
            THEN /\ Log(j, TranscodedLines(variant, jobId[j], "transcode"))
                 /\ Record(j, touches \o <<Ev("transcode_end", TRUE, 0), Ev("upload_start", TRUE, 0)>>)
                 /\ Goto(j, "upload")
                 /\ UNCHANGED <<turn, err, outcome, todo>>
            ELSE /\ Record(j, touches \o <<Ev("transcode_end", FALSE, 0)>>)
                 /\ Throw(j, Err("Command failed", 0, 0))
                 /\ UNCHANGED logs
    /\ UNCHANGED <<variant, secret, env, nextId, req, jobId, inputPath, outputPath, resp,
                   pending, upStatus>>

\* await fetch(target, {body: fs.createReadStream(outputPath)}) settles.
UploadDone(j) ==
    /\ turn = 0
    /\ pc[j] = "upload"
    /\ \E o \in (IF Exists(outputPath[j])
                 THEN FetchOutcomes(env, UploadTarget(variant, req[j]), UploadStatuses) ELSE {0}) :
         /\ Record(j, Touch("read", outputPath[j]) \o <<Ev("upload_response", StatusOk(o), o)>>)
         /\ IF o = 0
            THEN Throw(j, Err("fetch failed", 0, 0)) /\ UNCHANGED <<logs, upStatus>>
            ELSE IF variant = "supa"
            THEN /\ upStatus' = [upStatus EXCEPT ![j] = o]
                 /\ Goto(j, "text")
                 /\ UNCHANGED <<turn, err, outcome, todo, logs>>
            ELSE IF ~StatusOk(o)
            THEN Throw(j, UploadError(variant, o)) /\ UNCHANGED <<logs, upStatus>>
            ELSE /\ Log(j, UploadedLines(variant, jobId[j]))
                 /\ Finish(j, "success")
                 /\ UNCHANGED <<err, upStatus>>
    /\ UNCHANGED <<variant, secret, env, nextId, req, jobId, inputPath, outputPath, resp,
                   pending, fs>>

\* await r.text().catch(() => "") settles (part_001), then if (!r.ok) throw.
TextDone(j) ==
    /\ turn = 0
    /\ pc[j] = "text"
    /\ IF ~StatusOk(upStatus[j])
       THEN Throw(j, UploadError(variant, upStatus[j])) /\ UNCHANGED logs
       ELSE /\ Log(j, UploadedLines(variant, jobId[j]))
            /\ Finish(j, "success")
            /\ UNCHANGED err
    /\ UNCHANGED <<variant, secret, env, nextId, req, jobId, inputPath, outputPath, resp,
                   pending, fs, upStatus, trace>>

\* One statement of the tail is done: the handler returns after the last.
Advance(j) ==
    /\ todo' = [todo EXCEPT ![j] = Tail(@)]
    /\ IF Len(todo[j]) = 1
       THEN Goto(j, "done") /\ turn' = 0
       ELSE UNCHANGED <<pc, turn>>

\* catch (err) { log(`ERROR: ${err.message}`) ...
EpilogueLog(j) ==
    /\ turn = j
    /\ pc[j] = "epilogue"
    /\ Head(todo[j]) = "log"
    /\ Log(j, CatchLines(variant, jobId[j], err[j]))
    /\ Advance(j)
    /\ UNCHANGED <<variant, secret, env, nextId, req, jobId, inputPath, outputPath, err, resp,
                   pending, fs, outcome, upStatus, trace>>

\* The response the handler sends for the way its try block ended.
Response(v, how, id, r, e, lg) ==
    IF how = "success" THEN [code |-> 200, body |-> SuccessBody(v, id, r, lg)]
    ELSE IF how = "invalid" THEN [code |-> 400, body |-> InvalidBody(v, lg)]
    ELSE [code |-> ErrorStatus(v, e), body |-> ErrorBody(v, id, e, lg)]

\* res.json(...) / res.status(...).json(...)
EpilogueRespond(j) ==
    /\ turn = j
    /\ pc[j] = "epilogue"
    /\ Head(todo[j]) = "respond"
    /\ resp' = [resp EXCEPT ![j] =
                  Response(variant, outcome[j], jobId[j], req[j], err[j], logs[j])]
    /\ Record(j, <<Ev("respond", outcome[j] = "success", resp'[j].code)>>)
    /\ Advance(j)
    /\ UNCHANGED <<variant, secret, env, nextId, req, jobId, logs, inputPath, outputPath, err,
                   pending, fs, outcome, upStatus>>

\* A plausible slip: one try around both removals, so that a failure of the
\* first skips the second.
UnlinkTargetsOneTry(inp, out, inThere) ==
    IF inp /= <<>> /\ ~inThere THEN {"in"}
    ELSE {w \in {"in", "out"} : (IF w = "in" THEN inp ELSE out) /= <<>>}

\* The removals the finally block attempts: each path that is not "", whether
\* or not the other removal fails.
UnlinkTargets(inp, out, inThere) ==
    {w \in {"in", "out"} : (IF w = "in" THEN inp ELSE out) /= <<>>}

\* finally: unlinkSync both paths (part_001), or issue fs.unlink for both
\* (index.js); a failure is swallowed by the empty catch or callback.
EpilogueCleanup(j) ==
    /\ turn = j
    /\ pc[j] = "epilogue"
    /\ Head(todo[j]) = "cleanup"
    /\ LET targets == UnlinkTargets(inputPath[j], outputPath[j], Exists(inputPath[j])) IN
       IF UnlinkMode(variant) = "sync"
       THEN /\ fs' = {f \in fs : f.path \notin ({inputPath[j] : w \in targets \cap {"in"}}
                                                \cup {outputPath[j] : w \in targets \cap {"out"}})}
            /\ Record(j, (IF "in" \in targets
                          THEN <<Ev("unlink_in", Exists(inputPath[j]), Owner(inputPath[j]))>>
                          ELSE <<>>)
                         \o (IF "out" \in targets
                             THEN <<Ev("unlink_out", Exists(outputPath[j]), Owner(outputPath[j]))>>
                             ELSE <<>>))
            /\ UNCHANGED pending
       ELSE /\ pending' = [pending EXCEPT ![j] = targets]
            /\ UNCHANGED <<fs, trace>>
    /\ Advance(j)
    /\ UNCHANGED <<variant, secret, env, nextId, req, jobId, logs, inputPath, outputPath, err,
                   resp, outcome, upStatus>>

\* An fs.unlink issued by index.js completes; its callback ignores the result.
UnlinkDone(j) ==
    /\ turn = 0
    /\ \E w \in pending[j] :
         LET p == IF w = "in" THEN inputPath[j] ELSE outputPath[j] IN
         /\ fs' = Removed(p)
         /\ Record(j, <<Ev(IF w = "in" THEN "unlink_in" ELSE "unlink_out", Exists(p), Owner(p))>>)
         /\ pending' = [pending EXCEPT ![j] = @ \ {w}]
    /\ UNCHANGED <<variant, secret, env, turn, nextId, pc, req, jobId, logs, inputPath,
                   outputPath, err, resp, outcome, todo, upStatus>>

Next ==
    \E j \in Jobs :
        \/ Receive(j)
        \/ Auth(j)
        \/ Validate(j)
        \/ StartJob(j)
        \/ FetchDone(j)
        \/ StreamDone(j)
        \/ StatDone(j)
        \/ ExecDone(j)
        \/ FallbackDone(j)
        \/ UploadDone(j)
        \/ TextDone(j)
        \/ EpilogueLog(j)
        \/ EpilogueRespond(j)
        \/ EpilogueCleanup(j)
        \/ UnlinkDone(j)

Spec == Init /\ [][Next]_vars

SpecConc == InitConc /\ [][Next]_vars

\* The event loop runs a callback that is ready, and every external operation
\* ends: a step that can be taken is taken.
FairSpec == Spec /\ WF_vars(Next)

\* ---------------------------------------------------------------- claims
Active(j) == pc[j] \notin {"idle", "off"}

\* The handler returned and no unlink it issued is outstanding.
Terminated(j) == pc[j] = "done" /\ pending[j] = {}

Responded(j) == resp[j] /= NoResp

Has(j, op, ok) == \E i \in 1..Len(trace[j]) : trace[j][i].op = op /\ trace[j][i].ok = ok

Did(j, op) == Has(j, op, TRUE) \/ Has(j, op, FALSE)

NoTempFile(j) ==
    /\ inputPath[j] /= <<>> => ~Exists(inputPath[j])
    /\ outputPath[j] /= <<>> => ~Exists(outputPath[j])

\* The destination descriptor of the variant has a field the body lacks.
DestinationMissing(j) ==
    IF variant = "supa"
    THEN Undef \in {req[j].storage_bucket, req[j].supabase_url, req[j].supabase_key}
    ELSE req[j].upload_url = Undef

FieldMissing(j) ==
    req[j].input_video_url = Undef \/ req[j].match_id = Undef \/ DestinationMissing(j)

\* The request is one the authorization check lets through.
Authorized(j) == secret = <<>> \/ req[j].authorization = <<"Bearer ">> \o secret

\* C1: once a job that got past validation has terminated, whatever its
\* outcome, neither its input temp file nor its output temp file exists.
C1_CleanupGuarantee ==
    \A j \in Jobs : Terminated(j) /\ Did(j, "download_start") => NoTempFile(j)

\* C2: a request that lacks a required field is answered with status 400 and
\* error, and no temp path, download, subprocess or upload comes of it.
C2_MissingFieldRejected ==
    \A j \in Jobs :
        Active(j) /\ Authorized(j) /\ FieldMissing(j) =>
            /\ ~Did(j, "download_start")
            /\ inputPath[j] = <<>> /\ outputPath[j] = <<>>
            /\ fs = {}
            /\ Responded(j) => resp[j].code = 400 /\ resp[j].body.status = "error"
            /\ pc[j] = "done" => Responded(j)

\* b is a without everything from its first "?" on.
IsQueryStripped(b, a) ==
    /\ Len(b) <= Len(a)
    /\ \A i \in 1..Len(b) : b[i] = a[i] /\ b[i] /= "?"
    /\ Len(b) < Len(a) => a[Len(b) + 1] = "?"

\* b is a with " " written %20 and "/" written %2F.
IsEncoded(b, a) ==
    /\ Len(b) = Len(a)
    /\ \A i \in 1..Len(a) :
         b[i] = (CASE a[i] = " " -> "%20" [] a[i] = "/" -> "%2F" [] OTHER -> a[i])

\* u is <base>/storage/v1/object/public/<bucket>/processed/<match_id>/stream.mp4
\* with base the store's URL less its trailing slashes.
IsPublicObjectUrl(u, r) ==
    \E k \in 1..Len(r.supabase_url) :
        /\ r.supabase_url[k] /= "/"
        /\ \A i \in (k + 1)..Len(r.supabase_url) : r.supabase_url[i] = "/"
        /\ Len(u) = k + Len(r.storage_bucket) + Len(r.match_id) + 6
        /\ SubSeq(u, 1, k) = SubSeq(r.supabase_url, 1, k)
        /\ u[k + 1] = "/storage/v1/object/public/"
        /\ IsEncoded(SubSeq(u, k + 2, k + 1 + Len(r.storage_bucket)), r.storage_bucket)
        /\ LET m == k + 1 + Len(r.storage_bucket) IN
           /\ SubSeq(u, m + 1, m + 3) = <<"/", "processed", "/">>
           /\ IsEncoded(SubSeq(u, m + 4, m + 3 + Len(r.match_id)), r.match_id)
           /\ SubSeq(u, m + 4 + Len(r.match_id), Len(u)) = <<"/", "stream.mp4">>

\* The download answered ok, a subprocess exited 0 and the upload answered ok.
GoodRun(j) ==
    /\ Has(j, "download_response", TRUE)
    /\ Has(j, "transcode_end", TRUE) \/ Has(j, "remux_end", TRUE)
    /\ Has(j, "upload_response", TRUE)

\* C3: a job with every required field whose download, transcoder and upload
\* all succeeded is answered with status success and a non-empty stream_url:
\* upload_url cut at its first "?", or the public object URL of the bucket
\* and processed/<match_id>/stream.mp4.
C3_SuccessResultUrl ==
    \A j \in Jobs :
        pc[j] = "done" /\ ~FieldMissing(j) /\ GoodRun(j) =>
            /\ resp[j].code = 200
            /\ resp[j].body.status = "success"
            /\ "stream_url" \in DOMAIN resp[j].body
            /\ resp[j].body.stream_url /= <<>>
            /\ IF variant = "supa"
               THEN IsPublicObjectUrl(resp[j].body.stream_url, req[j])
               ELSE IsQueryStripped(resp[j].body.stream_url, req[j].upload_url)

\* C3's case: the scenario of the spec, m1 with https://x/put?sig=abc.
C3_Witness ==
    \E j \in Jobs :
        /\ pc[j] = "done" /\ GoodRun(j)
        /\ req[j].match_id = <<"m1">>
        /\ req[j].upload_url = <<"https://x/put", "?", "sig=abc">>
        /\ resp[j].body.stream_url = <<"https://x/put">>

\* Line i of lg has this text.
LineAt(lg, i, text) == lg[i].text = text

RemuxFellBack(j) ==
    /\ variant = "remux"
    /\ Has(j, "remux_end", FALSE)
    /\ Has(j, "transcode_end", TRUE)
    /\ Has(j, "upload_response", TRUE)

\* C4: in the remux-first handler, a job whose remux failed and whose full
\* transcode and upload then succeeded is answered with status success, and
\* the log it returns has a remux-failure line before a transcode-success line.
C4_FallbackLogged ==
    \A j \in Jobs :
        pc[j] = "done" /\ RemuxFellBack(j) =>
            /\ resp[j].body.status = "success"
            /\ \E i, k \in 1..Len(resp[j].body.logs) :
                 /\ i < k
                 /\ LineAt(resp[j].body.logs, i, "Remux failed, falling back to transcode")
                 /\ LineAt(resp[j].body.logs, k, "Transcode successful")

\* C4's case: a remux that failed, a fallback that worked, a job answered.
C4_Witness == \E j \in Jobs : pc[j] = "done" /\ RemuxFellBack(j) /\ resp[j].code = 200

\* C5: a response carries stream_url if and only if its status is success.
C5_UrlIffSuccess ==
    \A j \in Jobs :
        Responded(j) =>
            ("stream_url" \in DOMAIN resp[j].body <=> resp[j].body.status = "success")

\* C5's case: an error response of the catch block has been sent.
C5_Witness ==
    \E j \in Jobs : Responded(j) /\ resp[j].code = 500 /\ Has(j, "upload_response", FALSE)

\* A stage of the pipeline failed.
DownstreamFault(j) ==
    \/ Has(j, "download_response", FALSE) \/ Has(j, "download_stream", FALSE)
    \/ Has(j, "stat", FALSE)
    \/ Has(j, "transcode_end", FALSE)
    \/ Has(j, "upload_response", FALSE)

\* A field the handler requires is there but empty.
FieldEmpty(j) ==
    <<>> \in ({req[j].input_video_url, req[j].match_id}
              \cup (IF variant = "supa"
                    THEN {req[j].storage_bucket, req[j].supabase_url, req[j].supabase_key}
                    ELSE {req[j].upload_url}))

\* C6: a fault of the download, transcode or upload stage is answered 500; a
\* 400 or 401 is sent only for a missing field or a failed authorization, and
\* a missing field or a failed authorization is never answered 5xx.
C6_StatusClassification ==
    \A j \in Jobs :
        Responded(j) =>
            /\ DownstreamFault(j) => resp[j].code = 500
            /\ resp[j].code \in {400, 401} => ~Authorized(j) \/ FieldMissing(j) \/ FieldEmpty(j)
            /\ FieldMissing(j) \/ ~Authorized(j) => resp[j].code < 500

\* C7: with a worker secret set, a request whose Authorization header is not
\* exactly "Bearer <secret>" is answered 401 and nothing else happens to it:
\* no validation, no temp path, no download, subprocess or upload; with no
\* secret set, no request is rejected by the check.
C7_AuthFirst ==
    \A j \in Jobs :
        variant = "supa" /\ Active(j) =>
            /\ secret /= <<>> /\ req[j].authorization /= <<"Bearer ">> \o secret =>
                 /\ \A i \in 1..Len(trace[j]) : trace[j][i].op \in {"auth", "respond"}
                 /\ inputPath[j] = <<>> /\ outputPath[j] = <<>>
                 /\ fs = {}
                 /\ Responded(j) => resp[j].code = 401 /\ resp[j].body.status = "error"
                 /\ pc[j] = "done" => Responded(j)
            /\ secret = <<>> => ~Has(j, "auth", FALSE) /\ resp[j].code /= 401

\* C7's case: a secret is set and a request with another token was answered.
C7_Witness ==
    \E j \in Jobs :
        /\ secret = <<"s3cret">>
        /\ req[j].authorization = <<"Bearer ", "wrong">>
        /\ pc[j] = "done" /\ resp[j].code = 401

\* The upload target answered with a status that is not ok.
UploadRefused(j, s) ==
    \E i \in 1..Len(trace[j]) :
        trace[j][i].op = "upload_response" /\ ~trace[j][i].ok /\ trace[j][i].code = s

\* C8: when the upload target answers with a non-success status, the job is
\* answered with status error and a message quoting that status, and both
\* temp files are removed.
C8_UploadFailure ==
    \A j \in Jobs : \A s \in UploadStatuses :
        Terminated(j) /\ UploadRefused(j, s) =>
            /\ resp[j].body.status = "error"
            /\ resp[j].body.error.code = s
            /\ NoTempFile(j)

\* C9: every response has status, job_id and logs, and every error response
\* has error too.
C9_ResponseFields ==
    \A j \in Jobs :
        Responded(j) =>
            /\ {"status", "job_id", "logs"} \subseteq DOMAIN resp[j].body
            /\ resp[j].body.status = "error" => "error" \in DOMAIN resp[j].body

Unlinks == {"unlink_in", "unlink_out"}

C12_Termination == \A j \in Jobs : Active(j) ~> Responded(j)

Starts == {"download_start", "remux_start", "transcode_start", "upload_start"}

\* The event ends the stage in progress.
IsEnd(e) ==
    \/ e.op \in {"download_stream", "remux_end", "transcode_end", "upload_response"}
    \/ e.op = "download_response" /\ e.code \notin 200..299

\* The stages in progress after the first n events of job j.
InProgress(j, n) ==
    Cardinality({i \in 1..n : trace[j][i].op \in Starts})
        - Cardinality({i \in 1..n : IsEnd(trace[j][i])})

\* C13: a subprocess is started only after the download stream finished
\* writing the input file, the upload only after a subprocess exited 0, and
\* a job never has two stages in progress.
C13_StageSequencing ==
    \A j \in Jobs :
        /\ \A n \in 0..Len(trace[j]) : InProgress(j, n) \in {0, 1}
        /\ \A i \in 1..Len(trace[j]) :
             /\ trace[j][i].op \in {"remux_start", "transcode_start"} =>
                  \E k \in 1..(i - 1) : trace[j][k].op = "download_stream" /\ trace[j][k].ok
             /\ trace[j][i].op = "upload_start" =>
                  /\ InProgress(j, i - 1) = 0
                  /\ \E k \in 1..(i - 1) :
                       trace[j][k].op \in {"remux_end", "transcode_end"} /\ trace[j][k].ok

\* C13's case: a job went through the three stages.
C13_Witness == \E j \in Jobs : Has(j, "upload_response", TRUE) /\ pc[j] = "done"

Count(j, ops) == Cardinality({i \in 1..Len(trace[j]) : trace[j][i].op \in ops})

\* C14: a job downloads at most once, uploads at most once and runs at most
\* two subprocesses; the second runs only in the remux-first handler, after
\* the remux failed, and is the full transcode; in the safe-mode handlers a
\* failed transcode is followed by no other stage.
C14_NoRetry ==
    \A j \in Jobs :
        /\ Count(j, {"download_start"}) <= 1
        /\ Count(j, {"upload_start"}) <= 1
        /\ Count(j, {"remux_start"}) <= 1
        /\ Count(j, {"transcode_start"}) <= 1
        /\ Count(j, {"remux_start"}) = 1 => variant = "remux"
        /\ \A i \in 1..Len(trace[j]) :
             /\ trace[j][i].op = "transcode_start" /\ Count(j, {"remux_start"}) = 1 =>
                  \E k \in 1..(i - 1) : trace[j][k].op = "remux_end" /\ ~trace[j][k].ok
             /\ trace[j][i].op = "transcode_end" /\ ~trace[j][i].ok =>
                  \A k \in (i + 1)..Len(trace[j]) : trace[j][k].op \notin Starts

\* C14's case: the one retry there is, a transcode after a failed remux.
C14_Witness ==
    \E j \in Jobs :
        pc[j] = "done" /\ Count(j, {"remux_start", "transcode_start"}) = 2

\* An event of this kind with an answer in the success range.
Answered2xx(j, op) ==
    \E i \in 1..Len(trace[j]) : trace[j][i].op = op /\ trace[j][i].code \in 200..299

\* A stage of the job failed: a response outside the success range, a failed
\* stream or stat, a failed transcode.
StageFailed(j) ==
    \/ \E i \in 1..Len(trace[j]) :
         /\ trace[j][i].op \in {"download_response", "upload_response"}
         /\ trace[j][i].code \notin 200..299
    \/ Has(j, "download_stream", FALSE)
    \/ Has(j, "stat", FALSE)
    \/ Has(j, "transcode_end", FALSE)

\* C15: a success response is sent only after the download answered in the
\* success range and was written, a subprocess exited 0 and the upload
\* answered in the success range; no failed stage is followed by a success.
C15_SuccessOnlyAfterAll ==
    \A j \in Jobs :
        Responded(j) /\ resp[j].body.status = "success" =>
            /\ Answered2xx(j, "download_response")
            /\ Has(j, "download_stream", TRUE)
            /\ Has(j, "remux_end", TRUE) \/ Has(j, "transcode_end", TRUE)
            /\ Answered2xx(j, "upload_response")
            /\ ~StageFailed(j)

\* C15's case: a success response was sent.
C15_Witness == \E j \in Jobs : Responded(j) /\ resp[j].body.status = "success"

\* C16: the logs of every 500 response have a line with the error message.
C16_FailureLogged ==
    \A j \in Jobs :
        Responded(j) /\ resp[j].code = 500 =>
            \E i \in 1..Len(resp[j].body.logs) :
                /\ resp[j].body.logs[i].text = "ERROR: " \o resp[j].body.error.text
                /\ resp[j].body.logs[i].code = resp[j].body.error.code

\* a is a prefix of b.
IsPrefix(a, b) == Len(a) <= Len(b) /\ SubSeq(b, 1, Len(a)) = a

\* C17: the log of a job only grows at its end, and once the job's response
\* is sent, cleanup included, it does not change.
C17_LogAppendOnly ==
    [][\A j \in Jobs :
          /\ IsPrefix(logs[j], logs'[j])
          /\ Responded(j) => logs'[j] = logs[j]]_vars

\* C17's case: a job logged, answered, and cleaned up.
C17_Witness ==
    \E j \in Jobs :
        /\ Terminated(j) /\ Did(j, "unlink_in")
        /\ Len(logs[j]) > 0 /\ logs[j] = resp[j].body.logs

\* A removal of the job's cleanup failed.
UnlinkFailed(j) == Has(j, "unlink_in", FALSE) \/ Has(j, "unlink_out", FALSE)

TempPaths(j) == {inputPath[j], outputPath[j]} \ {<<>>}

\* The files job j read, overwrote or removed were all written by j itself.
TouchedOwnOnly(j) ==
    \A i \in 1..Len(trace[j]) :
        trace[j][i].op \in {"read", "overwrite", "unlink_in", "unlink_out"} =>
            trace[j][i].code \in {0, j}

\* Both jobs are under way, with different correlation keys.
DistinctKeys(j, k) == j /= k /\ Active(j) /\ Active(k) /\ req[j].match_id /= req[k].match_id

\* The job will take no further step: it returned, or it waits for ever.
Over(j) == Terminated(j) \/ pc[j] = "hung"

\* C11: jobs with distinct match_id values share no temp path, none reads,
\* overwrites or removes a file another wrote, and once both have terminated
\* no temp file of either is left.
C11_Isolation ==
    \A j, k \in Jobs :
        DistinctKeys(j, k) =>
            /\ TempPaths(j) \cap TempPaths(k) = {}
            /\ TouchedOwnOnly(j)
            /\ Terminated(j) /\ Terminated(k) => NoTempFile(j) /\ NoTempFile(k)

\* Both jobs are under way with the same correlation key and their paths set.
SameKey(j, k) ==
    /\ j /= k
    /\ req[j].match_id = req[k].match_id
    /\ inputPath[j] /= <<>> /\ inputPath[k] /= <<>>

\* C19: two jobs in flight with the same match_id use the same input path and
\* the same output path; nothing keeps one from removing or overwriting the
\* file the other is working on.
C19_SameKeySamePaths ==
    \A j, k \in Jobs :
        SameKey(j, k) => inputPath[j] = inputPath[k] /\ outputPath[j] = outputPath[k]

\* C19's case, the race: job k's cleanup removed a file that job j wrote, and
\* job j, between its download and the end of its upload, no longer has it.
C19_Witness ==
    \E j, k \in Jobs :
        /\ SameKey(j, k)
        /\ \E i \in 1..Len(trace[k]) :
             trace[k][i].op \in Unlinks /\ trace[k][i].ok /\ trace[k][i].code = j
        /\ \/ pc[j] \in {"stat", "ffmpeg", "fallback"} /\ ~Exists(inputPath[j])
           \/ pc[j] = "upload" /\ ~Exists(outputPath[j])

\* The step is one of job j's handler.
StepOf(j) == pc'[j] /= pc[j] \/ todo'[j] /= todo[j]

\* C20: the log of a job changes only by that job's own steps, every line of
\* it carries the job's own id, and the logs of the job's response are the
\* lines the job had logged, in order.
C20_LogIsolation ==
    [][\A j \in Jobs :
          /\ logs'[j] /= logs[j] => StepOf(j) /\ IsPrefix(logs[j], logs'[j])
          /\ \A i \in 1..Len(logs'[j]) : logs'[j][i].job = jobId'[j]
          /\ resp'[j] /= resp[j] => resp'[j].body.logs = logs[j]]_vars

\* C20's case: one job was answered while the other, which has logged, is
\* still uploading.
C20_Witness ==
    \E j, k \in Jobs :
        /\ j /= k
        /\ Responded(j) /\ Len(resp[j].body.logs) > 0
        /\ pc[k] = "upload" /\ Len(logs[k]) > 0
        /\ logs[j] /= logs[k]

====
